---- MODULE Spec2Model ----
(***************************************************************************)
(* FIFO capital-gains engine of backend/calculator/tax_calculator.py.      *)
(*                                                                         *)
(* Amounts are integers counted in half-tolerance units: one unit is       *)
(* 0.5e-8 coins, so the tolerance 1e-8 of the source is Epsilon = 2 and    *)
(* amounts strictly between zero and the tolerance exist in the model.     *)
(* Arithmetic is exact; floating-point rounding is not modelled.           *)
(* Timestamps are integers counted in ticks, TicksPerDay ticks to a day,   *)
(* so two timestamps of one calendar day differ and "whole days" is a      *)
(* floor.  Prices are integers.  A TaxLot carries an id, its object        *)
(* identity, numbered in creation order since the ledger was last rebuilt. *)
(***************************************************************************)
EXTENDS Integers, Sequences, FiniteSets, TLC

VARIABLES
    lots,                 \* self.lots: deque of TaxLot, front first
    capital_gains,        \* self.capital_gains
    errors,               \* self.errors
    call,                 \* public method being executed, "none" when idle
    pc,                   \* position of the executing method
    transactions,         \* argument of the latest calculate_taxes call
    sorted_transactions,  \* local of calculate_taxes
    idx,                  \* position of the for loop in sorted_transactions
    transaction,          \* argument of process_transaction being executed
    remaining_to_sell,    \* local of _process_sell
    summary,              \* dict returned by the latest calculate_taxes, as its caller sees it
    next_id,              \* identity given to the next TaxLot constructed
    processed,            \* history: transactions handed to process_transaction since the reset
    created,              \* history: lots constructed since the reset, as constructed
    evicted,              \* history: lots removed by the symbol-mismatch branch, as removed
    consumed,             \* history: lots removed by the fully-used branch, as removed
    returned,             \* history: <<batch, summary>> of the latest calculate_taxes return
    work,                 \* history: number of transactions passed to the instance so far
    rows,                 \* history: the CSV rows the latest batch was parsed from, <<>> if none
    requests,             \* api: the upload_csv requests being served, by request id
    calculators,          \* api: the FIFOTaxCalculator instances of the requests, by identity
    tmp,                  \* api: the files under /tmp, by file name
    reports               \* api: the TaxReport rows committed to the database

enginevars == <<lots, capital_gains, errors, call, pc, transactions, sorted_transactions,
                idx, transaction, remaining_to_sell, summary, next_id, processed,
                created, evicted, consumed, returned, work, rows>>

hostvars == <<requests, calculators, tmp, reports>>

vars == <<lots, capital_gains, errors, call, pc, transactions, sorted_transactions,
          idx, transaction, remaining_to_sell, summary, next_id, processed,
          created, evicted, consumed, returned, work, rows, requests, calculators,
          tmp, reports>>

-----------------------------------------------------------------------------
(* Bounds and program constants *)

MaxBatch == 4

MaxWork == 4

MaxRequests == 2

TicksPerDay == 2

Epsilon == 2

LongTermDays == 365

-----------------------------------------------------------------------------
(* Inputs *)

NoTransaction == [type |-> "none"]

NoSummary == [returned |-> FALSE]

Tx(d, k, s, a, p, f) ==
    [date |-> d, type |-> k, symbol |-> s, amount |-> a, price_per_unit |-> p, fee_usd |-> f]

LateDate == (LongTermDays + 1) * TicksPerDay

\* Quantities: one symbol, one timestamp, every amount class.
AmountTxs ==
    {Tx(0, k, "BTC", a, 2, 1) : k \in {"buy", "sell"}, a \in {0, 3, 4, 6}}

\* Symbols: two symbols, amounts that leave a sub-tolerance rest.
SymbolTxs ==
    {Tx(0, k, s, a, 2, 1) : k \in {"buy", "sell"}, s \in {"BTC", "ETH"}, a \in {3, 4}}

\* Dates and kinds: three timestamps, two in one day and one a year later.
DateTxs ==
    {Tx(d, k, "BTC", 4, 2, 1) : d \in {0, 1, LateDate}, k \in {"buy", "sell", "transfer"}}

\* Loop cases: zero-amount buys and sells, two symbols, an unknown kind.
TerminationTxs ==
    {Tx(0, "buy", "BTC", 0, 2, 1), Tx(0, "buy", "BTC", 6, 2, 1),
     Tx(0, "buy", "ETH", 4, 2, 1), Tx(0, "sell", "BTC", 0, 2, 1),
     Tx(0, "sell", "BTC", 4, 2, 1), Tx(0, "transfer", "BTC", 4, 2, 1)}

\* Prices and fees.
PriceTxs ==
    {Tx(0, k, "BTC", 4, p, f) : k \in {"buy", "sell"}, p \in {1, 3}, f \in {0, 1}}

\* Sales around the tolerance: of nothing, below it, at it and just above it,
\* with purchases of two symbols.
DustTxs ==
    {Tx(0, "buy", s, 4, 2, 1) : s \in {"BTC", "ETH"}}
        \cup {Tx(0, "sell", "BTC", a, 2, 1) : a \in {0, 1, Epsilon, Epsilon + 1}}

\* A row of the CSV file as pandas reads it: the columns parse() uses.
Row(d, k, s, btc, usd, f) ==
    [Date |-> d, Type |-> k, Symbol |-> s, BTCAmount |-> btc, USDAmount |-> usd, Fee |-> f]

\* Kinds in several letter cases, handed to the calculator as they are.
KindTxs == {Tx(0, k, "BTC", 4, 2, 1) : k \in {"buy", "Buy", "sell", "SELL", "Credit"}}

\* CSV rows with kinds in several letter cases and amounts of either sign,
\* and one sale of the other symbol.
KindRows ==
    {Row(0, k, "BTC", 4, -8, 1) : k \in {"buy", "Buy", "Credit"}}
        \cup {Row(0, k, "BTC", -4, 8, 1) : k \in {"sell", "SELL"}}
        \cup {Row(0, "Sell", "ETH", -4, 8, 1)}

\* Names of uploaded files: two that end in .csv and one that does not.
FileNames == {"a.csv", "b.csv", "notes.txt"}

Universes == {AmountTxs, SymbolTxs, DateTxs, PriceTxs, DustTxs}

SeqsUpTo(S, n) == UNION {[1..m -> S] : m \in 0..n}

Batches == UNION {SeqsUpTo(U, MaxBatch) : U \in Universes}

ReuseTxs ==
    {Tx(1, "buy", "BTC", 6, 2, 1), Tx(0, "buy", "BTC", 3, 1, 1),
     Tx(1, "sell", "BTC", 3, 3, 1), Tx(1, "sell", "ETH", 6, 3, 1),
     Tx(0, "transfer", "BTC", 4, 2, 1)}

-----------------------------------------------------------------------------
(* Pure helpers *)

\* str.lower() on the type strings of the model
LowerIdentity(k) == k

Lower(k) ==
    CASE k \in {"buy", "Buy", "BUY"} -> "buy"
      [] k \in {"sell", "Sell", "SELL"} -> "sell"
      [] k \in {"transfer", "Transfer"} -> "transfer"
      [] k \in {"credit", "Credit"} -> "credit"
      [] OTHER -> k

\* abs()
Abs(x) == IF x < 0 THEN -x ELSE x

\* abs(float(row['USD Amount'])) / abs(float(row['BTC Amount'])) raises
\* ZeroDivisionError on a zero amount
ParseRowRaises(row) == row.BTCAmount = 0

\* The dict parse() builds for a row, without price_usd (the calculator never
\* reads it); the rows of the model have USD amounts that divide exactly.
ParseRow(row) ==
    [date |-> row.Date, type |-> Lower(row.Type), symbol |-> row.Symbol,
     amount |-> Abs(row.BTCAmount),
     price_per_unit |-> Abs(row.USDAmount) \div Abs(row.BTCAmount),
     fee_usd |-> row.Fee]

ParseRaises(csv) == \E i \in 1..Len(csv) : ParseRowRaises(csv[i])

\* GeminiParser.parse
Parse(csv) == [i \in 1..Len(csv) |-> ParseRow(csv[i])]

Min(a, b) == IF a < b THEN a ELSE b

\* datetime.date(): the calendar day of a timestamp
DateOf(d) == d \div TicksPerDay

\* (sale_date - purchase_date).days: timedelta.days is a floor
HoldingDays(sale_date, purchase_date) == (sale_date - purchase_date) \div TicksPerDay

TermLongFrom365(holding_days) == IF holding_days >= LongTermDays THEN "long" ELSE "short"

Term(holding_days) == IF holding_days > LongTermDays THEN "long" ELSE "short"

TaxLot(id, date, amount, price_per_unit, symbol) ==
    [id |-> id, date |-> date, amount |-> amount, original_amount |-> amount,
     price_per_unit |-> price_per_unit, symbol |-> symbol,
     cost_basis |-> amount * price_per_unit]

CapitalGain(sale_date, purchase_date, symbol, amount, cost_basis, proceeds, gain_loss, term) ==
    [sale_date |-> sale_date, purchase_date |-> purchase_date, symbol |-> symbol,
     amount |-> amount, cost_basis |-> cost_basis, proceeds |-> proceeds,
     gain_loss |-> gain_loss, term |-> term,
     holding_days |-> HoldingDays(sale_date, purchase_date)]

\* sorted(transactions, key=lambda t: t['date']): a stable sort, as an insertion
\* of each element behind the elements whose key is not greater
InsertBeforeEqualDates(s, t) ==
    LET k == Cardinality({i \in 1..Len(s) : s[i].date < t.date})
    IN  SubSeq(s, 1, k) \o <<t>> \o SubSeq(s, k + 1, Len(s))

InsertByDate(s, t) ==
    LET k == Cardinality({i \in 1..Len(s) : s[i].date <= t.date})
    IN  SubSeq(s, 1, k) \o <<t>> \o SubSeq(s, k + 1, Len(s))

\* The batch in the order given.
NotSorted(s) == s

RECURSIVE SortByDate(_)
SortByDate(s) ==
    IF s = <<>> THEN <<>>
    ELSE InsertByDate(SortByDate(SubSeq(s, 1, Len(s) - 1)), s[Len(s)])

NewestLot(q) == q[Len(q)]

\* self.lots[0]
OldestLot(q) == q[1]

\* The front lot left in the deque.
PopLeftForgotten(q) == q

\* self.lots.popleft()
PopLeft(q) == Tail(q)

\* self.lots.appendleft(lot)
AppendLotLeft(q, lot) == <<lot>> \o q

\* self.lots.append(lot)
AppendLot(q, lot) == Append(q, lot)

\* remaining_to_sell left as it is.
UnsoldUnchanged(remaining, amount_from_lot) == remaining

\* remaining_to_sell -= amount_from_lot: the new value
StillUnsold(remaining, amount_from_lot) == remaining - amount_from_lot

\* oldest_lot.amount += amount_from_lot
Incremented(amount, amount_from_lot) == amount + amount_from_lot

\* oldest_lot.amount -= amount_from_lot: the new value
Decremented(amount, amount_from_lot) == amount - amount_from_lot

SetAmountForgotten(q, id, amount) == q

\* The assignment as if cost_basis were derived from the amount left.
SetAmountAndBasis(q, id, amount) ==
    [i \in 1..Len(q) |->
        IF q[i].id = id
           THEN [q[i] EXCEPT !.amount = amount,
                             !.cost_basis = amount * q[i].price_per_unit]
           ELSE q[i]]

\* oldest_lot.amount -= amount_from_lot: the object is changed wherever it is held
SetAmount(q, id, amount) ==
    [i \in 1..Len(q) |-> IF q[i].id = id THEN [q[i] EXCEPT !.amount = amount] ELSE q[i]]

WholeRemaining(remaining, lot) == remaining

AmountFromLot(remaining, lot) == Min(remaining, lot.amount)

CostBasis(amount_from_lot, lot) == amount_from_lot * lot.price_per_unit

ProceedsNetOfFee(amount_from_lot, t) == amount_from_lot * t.price_per_unit - t.fee_usd

Proceeds(amount_from_lot, t) == amount_from_lot * t.price_per_unit

GainLoss(proceeds, cost_basis) == proceeds - cost_basis

\* if oldest_lot.symbol != symbol
MismatchIgnored(lot, symbol) == FALSE

Mismatch(lot, symbol) == lot.symbol # symbol

\* The loop test without the tolerance.
StillToSellAnything(remaining) == remaining > 0

\* the loop also entered with exactly the tolerance left to sell
StillToSellFromTolerance(remaining) == remaining >= Epsilon

\* while remaining_to_sell > 0.00000001
StillToSell(remaining) == remaining > Epsilon

\* The removal test for an amount of exactly zero or less.
FullyUsedAtZero(amount) == amount <= 0

\* The removal test with the tolerance itself counted as zero.
FullyUsedAtTolerance(amount) == amount <= Epsilon

\* if oldest_lot.amount < 0.00000001
FullyUsed(amount) == amount < Epsilon

\* The message with {sale_date} in place of {sale_date.date()}.
NoLotsMessageTimestamp(remaining, symbol, sale_date) ==
    [format |-> "Error: Trying to sell {remaining_to_sell} {symbol} but no lots available on {sale_date.date()}",
     remaining_to_sell |-> remaining, symbol |-> symbol, date |-> sale_date]

NoLotsMessage(remaining, symbol, sale_date) ==
    [format |-> "Error: Trying to sell {remaining_to_sell} {symbol} but no lots available on {sale_date.date()}",
     remaining_to_sell |-> remaining, symbol |-> symbol, date |-> DateOf(sale_date)]

MismatchMessage(symbol, lot_symbol) ==
    [format |-> "Error: Symbol mismatch - trying to sell {symbol} but oldest lot is {oldest_lot.symbol}",
     symbol |-> symbol, lot_symbol |-> lot_symbol]

UnknownTypeMessage(type) ==
    [format |-> "Unknown transaction type: {transaction['type']}", type |-> type]

RECURSIVE SumGainLoss(_)
SumGainLoss(g) == IF g = <<>> THEN 0 ELSE Head(g).gain_loss + SumGainLoss(Tail(g))

IsShort(g) == g.term = "short"

IsLong(g) == g.term = "long"

\* _generate_summary
GenerateSummaryDict(gains, q, errs) ==
    IF gains = <<>> THEN
        [returned |-> TRUE,
         total_gain_loss |-> 0, short_term_gain_loss |-> 0, long_term_gain_loss |-> 0,
         num_transactions |-> 0, errors |-> errs]
    ELSE
        LET short_term_gains == SelectSeq(gains, IsShort)
            long_term_gains == SelectSeq(gains, IsLong)
            short_term_total == SumGainLoss(short_term_gains)
            long_term_total == SumGainLoss(long_term_gains)
        IN  [returned |-> TRUE,
             total_gain_loss |-> short_term_total + long_term_total,
             short_term_gain_loss |-> short_term_total,
             long_term_gain_loss |-> long_term_total,
             num_short_term |-> Len(short_term_gains),
             num_long_term |-> Len(long_term_gains),
             num_transactions |-> Len(gains),
             capital_gains |-> gains,
             remaining_lots |-> q,
             errors |-> errs]

HasKey(s, k) == k \in DOMAIN s

\* The returned dict holds self.errors and self.capital_gains themselves and the
\* TaxLot objects of self.lots (in a new list): what a later process_transaction
\* does to them shows in the dict.
Aliased(s, gains, q, errs) ==
    IF ~s.returned THEN s
    ELSE LET s1 == [s EXCEPT !.errors = errs]
         IN  IF ~HasKey(s, "capital_gains") THEN s1
             ELSE [s1 EXCEPT
                     !.capital_gains = gains,
                     !.remaining_lots =
                         [i \in 1..Len(s.remaining_lots) |->
                             LET old == s.remaining_lots[i]
                                 live == {j \in 1..Len(q) : q[j].id = old.id}
                             IN  IF live = {} THEN old ELSE q[CHOOSE j \in live : TRUE]]]

\* Where control goes when process_transaction returns
AfterTransaction == IF call = "calculate_taxes" THEN "for" ELSE "idle"

CallAfterTransaction == IF call = "calculate_taxes" THEN call ELSE "none"

LoopAgain == "while"

\* break: leaves the while loop, and with it _process_sell
AfterBreak == AfterTransaction

\* The dict of the previous return as seen after a step of the running method:
\* calculate_taxes works on fresh lists, a direct process_transaction on the
\* lists the dict holds.
SummaryAfter(gains, q, errs) ==
    IF call = "process_transaction" THEN Aliased(summary, gains, q, errs) ELSE summary

-----------------------------------------------------------------------------
(* State machine *)

\* The requests served at the same time.
RequestIds == 1..MaxRequests

\* No response sent yet.
NoResponse == [status_code |-> 0, detail |-> "", report_id |-> 0, num_transactions |-> 0]

\* FIFOTaxCalculator.__init__
NewCalculator == [lots |-> <<>>, capital_gains |-> <<>>, errors |-> <<>>, next_id |-> 1]

\* A request not yet received.
NewRequest ==
    [pc |-> "new", filename |-> "", content |-> <<>>, fd |-> 0, transactions |-> <<>>,
     calculator |-> 0, sorted_transactions |-> <<>>, idx |-> 1,
     tax_summary |-> NoSummary, report_id |-> 0, response |-> NoResponse]

\* A path under /tmp without a file.
NoFile == [exists |-> FALSE, inode |-> 0, header |-> FALSE, rows |-> <<>>]

\* /tmp without any uploaded file.
NoFiles == [name \in FileNames |-> NoFile]

Init ==
    /\ lots = <<>>
    /\ capital_gains = <<>>
    /\ errors = <<>>
    /\ call = "none"
    /\ pc = "idle"
    /\ transactions = <<>>
    /\ sorted_transactions = <<>>
    /\ idx = 1
    /\ transaction = NoTransaction
    /\ remaining_to_sell = 0
    /\ summary = NoSummary
    /\ next_id = 1
    /\ processed = <<>>
    /\ created = <<>>
    /\ evicted = <<>>
    /\ consumed = <<>>
    /\ returned = <<>>
    /\ work = 0
    /\ rows = <<>>
    /\ requests = [r \in RequestIds |-> NewRequest]
    /\ calculators = [c \in RequestIds |-> NewCalculator]
    /\ tmp = NoFiles
    /\ reports = <<>>

\* calculate_taxes, up to the for loop: reset, then sort
ResetLots == <<>>

ResetCapitalGains == <<>>

ErrorsKept == errors

ResetErrors == <<>>

CalculateTaxesFrom(batch, csv) ==
    /\ pc = "idle"
    /\ rows' = csv
    /\ lots' = ResetLots
    /\ capital_gains' = ResetCapitalGains
    /\ errors' = ResetErrors
    /\ call' = "calculate_taxes"
    /\ pc' = "for"
    /\ transactions' = batch
    /\ sorted_transactions' = SortByDate(batch)
    /\ idx' = 1
    /\ next_id' = 1
    /\ processed' = <<>>
    /\ created' = <<>>
    /\ evicted' = <<>>
    /\ consumed' = <<>>
    /\ work' = work + Len(batch)
    /\ UNCHANGED <<transaction, remaining_to_sell, summary, returned>>
    /\ UNCHANGED hostvars

\* calculator.calculate_taxes(transactions) on a list built by the caller
CalculateTaxes(batch) == CalculateTaxesFrom(batch, <<>>)

\* transactions = parser.parse(); calculator.calculate_taxes(transactions)
ParseAndCalculate(csv) ==
    /\ ~ParseRaises(csv)
    /\ CalculateTaxesFrom(Parse(csv), csv)

\* a direct call of process_transaction on the instance
ProcessTransactionCall(t) ==
    /\ pc = "idle"
    /\ call' = "process_transaction"
    /\ pc' = "dispatch"
    /\ transaction' = t
    /\ processed' = Append(processed, t)
    /\ work' = work + 1
    /\ UNCHANGED <<lots, capital_gains, errors, transactions, sorted_transactions, idx,
                   remaining_to_sell, summary, next_id, created, evicted, consumed, returned>>
    /\ UNCHANGED <<rows, hostvars>>

\* for transaction in sorted_transactions: self.process_transaction(transaction)
NextTransaction(sorted, i) == sorted[i]

ForLoop ==
    /\ pc = "for"
    /\ idx <= Len(sorted_transactions)
    /\ transaction' = NextTransaction(sorted_transactions, idx)
    /\ processed' = Append(processed, transaction')
    /\ idx' = idx + 1
    /\ pc' = "dispatch"
    /\ UNCHANGED <<lots, capital_gains, errors, call, transactions, sorted_transactions,
                   remaining_to_sell, summary, next_id, created, evicted, consumed,
                   returned, work>>
    /\ UNCHANGED <<rows, hostvars>>

\* return self._generate_summary()
GenerateSummary ==
    /\ pc = "for"
    /\ idx > Len(sorted_transactions)
    /\ summary' = GenerateSummaryDict(capital_gains, lots, errors)
    /\ returned' = <<transactions, summary'>>
    /\ pc' = "idle"
    /\ call' = "none"
    /\ UNCHANGED <<lots, capital_gains, errors, transactions, sorted_transactions, idx,
                   transaction, remaining_to_sell, next_id, processed, created, evicted,
                   consumed, work>>
    /\ UNCHANGED <<rows, hostvars>>

IsBuy(t) == t.type = "buy"

IsNotBuy(t) == t.type # "buy"

IsSell(t) == t.type = "sell"

\* _process_buy
ProcessBuy ==
    /\ pc = "dispatch"
    /\ IsBuy(transaction)
    /\ LET lot == TaxLot(next_id, transaction.date, transaction.amount,
                         transaction.price_per_unit, transaction.symbol)
       IN  /\ lots' = AppendLot(lots, lot)
           /\ created' = Append(created, lot)
           /\ summary' = SummaryAfter(capital_gains, lots', errors)
    /\ next_id' = next_id + 1
    /\ pc' = AfterTransaction
    /\ call' = CallAfterTransaction
    /\ UNCHANGED <<capital_gains, errors, transactions, sorted_transactions, idx,
                   transaction, remaining_to_sell, processed, evicted, consumed,
                   returned, work>>
    /\ UNCHANGED <<rows, hostvars>>

\* the else branch of process_transaction
ProcessUnknown ==
    /\ pc = "dispatch"
    /\ ~IsBuy(transaction)
    /\ ~IsSell(transaction)
    /\ errors' = Append(errors, UnknownTypeMessage(transaction.type))
    /\ summary' = SummaryAfter(capital_gains, lots, errors')
    /\ pc' = AfterTransaction
    /\ call' = CallAfterTransaction
    /\ UNCHANGED <<lots, capital_gains, transactions, sorted_transactions, idx,
                   transaction, remaining_to_sell, next_id, processed, created, evicted,
                   consumed, returned, work>>
    /\ UNCHANGED <<rows, hostvars>>

\* _process_sell, up to the while loop
ProcessSell ==
    /\ pc = "dispatch"
    /\ ~IsBuy(transaction)
    /\ IsSell(transaction)
    /\ remaining_to_sell' = transaction.amount
    /\ pc' = "while"
    /\ UNCHANGED <<lots, capital_gains, errors, call, transactions, sorted_transactions,
                   idx, transaction, summary, next_id, processed, created, evicted,
                   consumed, returned, work>>
    /\ UNCHANGED <<rows, hostvars>>

\* the while condition is false: _process_sell returns
SellDone ==
    /\ pc = "while"
    /\ ~StillToSell(remaining_to_sell)
    /\ pc' = AfterTransaction
    /\ call' = CallAfterTransaction
    /\ UNCHANGED <<lots, capital_gains, errors, transactions, sorted_transactions, idx,
                   transaction, remaining_to_sell, summary, next_id, processed, created,
                   evicted, consumed, returned, work>>
    /\ UNCHANGED <<rows, hostvars>>

\* if not self.lots: record the anomaly and break
SellNoLots ==
    /\ pc = "while"
    /\ StillToSell(remaining_to_sell)
    /\ lots = <<>>
    /\ errors' = Append(errors, NoLotsMessage(remaining_to_sell, transaction.symbol,
                                              transaction.date))
    /\ summary' = SummaryAfter(capital_gains, lots, errors')
    /\ pc' = AfterBreak
    /\ call' = (IF pc' = "idle" THEN "none" ELSE call)
    /\ UNCHANGED <<lots, capital_gains, transactions, sorted_transactions, idx,
                   transaction, remaining_to_sell, next_id, processed, created, evicted,
                   consumed, returned, work>>
    /\ UNCHANGED <<rows, hostvars>>

\* if oldest_lot.symbol != symbol: record the anomaly, drop the lot, continue
SellMismatch ==
    /\ pc = "while"
    /\ StillToSell(remaining_to_sell)
    /\ lots # <<>>
    /\ Mismatch(OldestLot(lots), transaction.symbol)
    /\ errors' = Append(errors, MismatchMessage(transaction.symbol, OldestLot(lots).symbol))
    /\ evicted' = Append(evicted, Head(lots))
    /\ lots' = PopLeft(lots)
    /\ summary' = SummaryAfter(capital_gains, lots', errors')
    /\ UNCHANGED <<capital_gains, call, pc, transactions, sorted_transactions, idx,
                   transaction, remaining_to_sell, next_id, processed, created, consumed,
                   returned, work>>
    /\ UNCHANGED <<rows, hostvars>>

\* the matching step: one CapitalGain from the oldest lot
SellMatch ==
    /\ pc = "while"
    /\ StillToSell(remaining_to_sell)
    /\ lots # <<>>
    /\ ~Mismatch(OldestLot(lots), transaction.symbol)
    /\ LET oldest_lot == OldestLot(lots)
           amount_from_lot == AmountFromLot(remaining_to_sell, oldest_lot)
           cost_basis == CostBasis(amount_from_lot, oldest_lot)
           proceeds == Proceeds(amount_from_lot, transaction)
           gain_loss == GainLoss(proceeds, cost_basis)
           holding_days == HoldingDays(transaction.date, oldest_lot.date)
           term == Term(holding_days)
           capital_gain == CapitalGain(transaction.date, oldest_lot.date,
                                       transaction.symbol, amount_from_lot, cost_basis,
                                       proceeds, gain_loss, term)
           new_amount == Decremented(oldest_lot.amount, amount_from_lot)
           updated == SetAmount(lots, oldest_lot.id, new_amount)
       IN  /\ capital_gains' = Append(capital_gains, capital_gain)
           /\ remaining_to_sell' = StillUnsold(remaining_to_sell, amount_from_lot)
           /\ IF FullyUsed(new_amount)
                 THEN /\ lots' = PopLeft(updated)
                      /\ consumed' = Append(consumed, Head(updated))
                 ELSE /\ lots' = updated
                      /\ consumed' = consumed
           /\ summary' = SummaryAfter(capital_gains', updated, errors)
    /\ UNCHANGED <<errors, call, pc, transactions, sorted_transactions, idx, transaction,
                   next_id, processed, created, evicted, returned, work>>
    /\ UNCHANGED <<rows, hostvars>>

Step ==
    \/ ForLoop
    \/ GenerateSummary
    \/ ProcessBuy
    \/ ProcessUnknown
    \/ ProcessSell
    \/ SellDone
    \/ SellNoLots
    \/ SellMismatch
    \/ SellMatch

\* One calculate_taxes call on a new instance, for every batch
Next ==
    \/ pc = "idle" /\ returned = <<>> /\ \E batch \in Batches : CalculateTaxes(batch)
    \/ Step

Spec == Init /\ [][Next]_vars

\* An instance used again: calculate_taxes and process_transaction calls in any order
NextReuse ==
    \/ pc = "idle" /\ \E batch \in SeqsUpTo(ReuseTxs, MaxWork - work) : CalculateTaxes(batch)
    \/ pc = "idle" /\ work < MaxWork /\ \E t \in ReuseTxs : ProcessTransactionCall(t)
    \/ Step

SpecReuse == Init /\ [][NextReuse]_vars

NextKinds ==
    \/ pc = "idle" /\ returned = <<>> /\
          \E batch \in SeqsUpTo(KindTxs, MaxBatch) : CalculateTaxes(batch)
    \/ pc = "idle" /\ returned = <<>> /\
          \E csv \in SeqsUpTo(KindRows, MaxBatch) : ParseAndCalculate(csv)
    \/ Step

SpecKinds == Init /\ [][NextKinds]_vars

\* calculate_taxes is synchronous straight-line code: once called, the
\* interpreter takes its next step, so every enabled step of the run happens.
NextFair ==
    \/ pc = "idle" /\ returned = <<>> /\
          \E batch \in SeqsUpTo(TerminationTxs, MaxBatch) : CalculateTaxes(batch)
    \/ Step

SpecFair == Init /\ [][NextFair]_vars /\ WF_vars(Step)

-----------------------------------------------------------------------------
(* upload_csv of api/main.py: requests served at the same time.  A request *)
(* is a sequence of steps; steps of different requests interleave freely,  *)
(* which covers one event loop (switching at the await) and several worker *)
(* processes sharing /tmp and the database.                                *)

\* process_transaction with its calls, on the state of one instance
RECURSIVE ProcessSellOn(_, _, _)
ProcessSellOn(c, t, remaining) ==
    IF ~StillToSell(remaining) THEN c
    ELSE IF c.lots = <<>>
        THEN [c EXCEPT !.errors = Append(@, NoLotsMessage(remaining, t.symbol, t.date))]
    ELSE IF Mismatch(OldestLot(c.lots), t.symbol)
        THEN ProcessSellOn(
                 [c EXCEPT !.errors = Append(@, MismatchMessage(t.symbol, OldestLot(c.lots).symbol)),
                           !.lots = PopLeft(@)],
                 t, remaining)
    ELSE LET oldest_lot == OldestLot(c.lots)
             amount_from_lot == AmountFromLot(remaining, oldest_lot)
             cost_basis == CostBasis(amount_from_lot, oldest_lot)
             proceeds == Proceeds(amount_from_lot, t)
             gain_loss == GainLoss(proceeds, cost_basis)
             holding_days == HoldingDays(t.date, oldest_lot.date)
             capital_gain == CapitalGain(t.date, oldest_lot.date, t.symbol, amount_from_lot,
                                         cost_basis, proceeds, gain_loss, Term(holding_days))
             new_amount == Decremented(oldest_lot.amount, amount_from_lot)
             updated == SetAmount(c.lots, oldest_lot.id, new_amount)
         IN  ProcessSellOn(
                 [c EXCEPT !.capital_gains = Append(@, capital_gain),
                           !.lots = IF FullyUsed(new_amount) THEN PopLeft(updated) ELSE updated],
                 t, StillUnsold(remaining, amount_from_lot))

ProcessTransactionOn(c, t) ==
    IF IsBuy(t)
        THEN [c EXCEPT !.lots = AppendLot(@, TaxLot(c.next_id, t.date, t.amount,
                                                    t.price_per_unit, t.symbol)),
                       !.next_id = @ + 1]
    ELSE IF IsSell(t) THEN ProcessSellOn(c, t, t.amount)
    ELSE [c EXCEPT !.errors = Append(@, UnknownTypeMessage(t.type))]

\* calculate_taxes from the reset to the end of the for loop, on one instance
RECURSIVE ProcessAllOn(_, _)
ProcessAllOn(c, sorted) ==
    IF sorted = <<>> THEN c
    ELSE ProcessAllOn(ProcessTransactionOn(c, Head(sorted)), Tail(sorted))

\* calculate_taxes run alone on a new instance: the dict it returns
SummaryAlone(batch) ==
    LET c == ProcessAllOn(NewCalculator, SortByDate(batch))
    IN  GenerateSummaryDict(c.capital_gains, c.lots, c.errors)

\* The uploaded files: a header without rows, and rows under a header.
BuyRow == Row(0, "Buy", "BTC", 4, -8, 1)

SellRow == Row(1, "Sell", "BTC", -4, 12, 1)

ZeroRow == Row(0, "Buy", "BTC", 0, 0, 1)

CsvFiles == {<<>>, <<BuyRow>>, <<SellRow>>, <<BuyRow, SellRow>>, <<ZeroRow>>}

\* file.filename.endswith('.csv')
EndsWithCsv(name) == name \in {"a.csv", "b.csv"}

\* A module-level instance used by every request.
SharedCalculator(r) == 1

\* calculator = FIFOTaxCalculator(): the identity of the object a request constructs
OwnCalculator(r) == r

HTTPException(status_code, detail) ==
    [status_code |-> status_code, detail |-> detail, report_id |-> 0, num_transactions |-> 0]

\* except Exception as e: raise HTTPException(status_code=500, ...)
Raise500(r, e) ==
    [requests EXCEPT ![r].pc = "done",
                     ![r].response = HTTPException(500, e)]

\* open(temp_path, "wb"): the file at the path emptied, or a new file
OpenWb(files, name, r) ==
    IF files[name].exists
        THEN [files EXCEPT ![name].header = FALSE, ![name].rows = <<>>]
        ELSE [files EXCEPT ![name] = [exists |-> TRUE, inode |-> r,
                                      header |-> FALSE, rows |-> <<>>]]

\* buffer.write(content) from offset 0 and close: what the file had beyond the
\* written length stays; a file unlinked since the open is written out of sight
WriteClose(files, name, fd, content) ==
    IF files[name].exists /\ files[name].inode = fd
        THEN [files EXCEPT ![name].header = TRUE,
                           ![name].rows = content \o SubSeq(@, Len(content) + 1, Len(@))]
        ELSE files

\* lines 65-72: the file type check, open(temp_path, "wb"), await file.read()
Receive(r, name, content) ==
    /\ requests[r].pc = "new"
    /\ \A q \in RequestIds : q < r => requests[q].pc # "new"
    /\ IF ~EndsWithCsv(name)
          THEN /\ requests' = [requests EXCEPT
                     ![r].pc = "done", ![r].filename = name, ![r].content = content,
                     ![r].response = HTTPException(400, "Only CSV files are allowed")]
               /\ tmp' = tmp
          ELSE /\ requests' = [requests EXCEPT
                     ![r].pc = "reading", ![r].filename = name, ![r].content = content,
                     ![r].fd = IF tmp[name].exists THEN tmp[name].inode ELSE r]
               /\ tmp' = OpenWb(tmp, name, r)
    /\ UNCHANGED <<enginevars, calculators, reports>>

\* line 73 and the end of the with block
WriteTemp(r) ==
    /\ requests[r].pc = "reading"
    /\ tmp' = WriteClose(tmp, requests[r].filename, requests[r].fd, requests[r].content)
    /\ requests' = [requests EXCEPT ![r].pc = "written"]
    /\ UNCHANGED <<enginevars, calculators, reports>>

\* lines 76-84 up to the for loop of calculate_taxes: parse, the empty check,
\* the construction of the calculator, the reset and the sort
ParseUpload(r) ==
    /\ requests[r].pc = "written"
    /\ LET file == tmp[requests[r].filename]
           c == OwnCalculator(r)
       IN  IF ~file.exists
              THEN /\ requests' = Raise500(r, "Error processing file: [Errno 2] No such file or directory")
                   /\ calculators' = calculators
           ELSE IF ~file.header
              THEN /\ requests' = Raise500(r, "Error processing file: No columns to parse from file")
                   /\ calculators' = calculators
           ELSE IF ParseRaises(file.rows)
              THEN /\ requests' = Raise500(r, "Error processing file: float division by zero")
                   /\ calculators' = calculators
           ELSE IF Parse(file.rows) = <<>>
              THEN /\ requests' = Raise500(r, "Error processing file: 400: No transactions found in CSV")
                   /\ calculators' = calculators
           ELSE /\ requests' = [requests EXCEPT
                      ![r].pc = "calculating",
                      ![r].transactions = Parse(file.rows),
                      ![r].calculator = c,
                      ![r].sorted_transactions = SortByDate(Parse(file.rows)),
                      ![r].idx = 1]
                /\ calculators' = [calculators EXCEPT ![c] = NewCalculator]
    /\ UNCHANGED <<enginevars, tmp, reports>>

\* one turn of the for loop of calculate_taxes on the request's calculator
Calculate(r) ==
    /\ requests[r].pc = "calculating"
    /\ requests[r].idx <= Len(requests[r].sorted_transactions)
    /\ LET c == requests[r].calculator
       IN  calculators' = [calculators EXCEPT
               ![c] = ProcessTransactionOn(@, requests[r].sorted_transactions[requests[r].idx])]
    /\ requests' = [requests EXCEPT ![r].idx = @ + 1]
    /\ UNCHANGED <<enginevars, tmp, reports>>

\* return self._generate_summary()
Summarise(r) ==
    /\ requests[r].pc = "calculating"
    /\ requests[r].idx > Len(requests[r].sorted_transactions)
    /\ LET c == calculators[requests[r].calculator]
       IN  requests' = [requests EXCEPT
               ![r].pc = "summarised",
               ![r].tax_summary = GenerateSummaryDict(c.capital_gains, c.lots, c.errors)]
    /\ UNCHANGED <<enginevars, calculators, tmp, reports>>

\* The TaxReport row of lines 102-114.
TaxReport(id, r, tax_summary) ==
    [id |-> id, request |-> r, filename |-> requests[r].filename,
     total_gain_loss |-> tax_summary.total_gain_loss,
     short_term_gain_loss |-> tax_summary.short_term_gain_loss,
     long_term_gain_loss |-> tax_summary.long_term_gain_loss,
     num_transactions |-> tax_summary.num_transactions,
     num_short_term |-> tax_summary.num_short_term,
     num_long_term |-> tax_summary.num_long_term,
     capital_gains |-> tax_summary.capital_gains,
     errors |-> tax_summary.errors]

\* lines 86-134: tax_summary['capital_gains'] and the other keys are read, the
\* report and the transactions are committed
StoreReport(r) ==
    /\ requests[r].pc = "summarised"
    /\ IF ~HasKey(requests[r].tax_summary, "capital_gains")
          THEN /\ requests' = Raise500(r, "Error processing file: 'capital_gains'")
               /\ reports' = reports
          ELSE /\ reports' = Append(reports, TaxReport(Len(reports) + 1, r, requests[r].tax_summary))
               /\ requests' = [requests EXCEPT ![r].pc = "stored",
                                                ![r].report_id = Len(reports) + 1]
    /\ UNCHANGED <<enginevars, calculators, tmp>>

\* lines 137-144: os.remove(temp_path) and the response
Respond(r) ==
    /\ requests[r].pc = "stored"
    /\ IF ~tmp[requests[r].filename].exists
          THEN /\ requests' = Raise500(r, "Error processing file: [Errno 2] No such file or directory")
               /\ tmp' = tmp
          ELSE /\ tmp' = [tmp EXCEPT ![requests[r].filename] = NoFile]
               /\ requests' = [requests EXCEPT
                      ![r].pc = "done",
                      ![r].response =
                          [status_code |-> 200,
                           detail |-> "Tax calculation completed successfully",
                           report_id |-> requests[r].report_id,
                           num_transactions |-> Len(requests[r].transactions)]]
    /\ UNCHANGED <<enginevars, calculators, reports>>

NextHost ==
    \/ \E r \in RequestIds, name \in FileNames, content \in CsvFiles : Receive(r, name, content)
    \/ \E r \in RequestIds : WriteTemp(r)
    \/ \E r \in RequestIds : ParseUpload(r)
    \/ \E r \in RequestIds : Calculate(r)
    \/ \E r \in RequestIds : Summarise(r)
    \/ \E r \in RequestIds : StoreReport(r)
    \/ \E r \in RequestIds : Respond(r)

SpecHost == Init /\ [][NextHost]_vars

-----------------------------------------------------------------------------
(* Properties *)

GainAdded == Len(capital_gains') = Len(capital_gains) + 1

NewGain == capital_gains'[Len(capital_gains')]

Returned == pc = "idle" /\ returned # <<>>

RemoveAt(q, i) == SubSeq(q, 1, i - 1) \o SubSeq(q, i + 1, Len(q))

\* C1 (FIFO precedence): whenever a gain is emitted, the lot it is taken from
\* (the one lot of the ledger whose amount the step reduces or which the step
\* removes) carries the gain's purchase date and symbol, and no other lot of the
\* ledger was appended before it.
FifoPrecedence ==
    [][GainAdded =>
        \E i \in 1..Len(lots) :
            /\ NewGain.purchase_date = lots[i].date
            /\ NewGain.symbol = lots[i].symbol
            /\ \/ lots' = [lots EXCEPT ![i].amount = @ - NewGain.amount]
               \/ lots' = RemoveAt(lots, i)
            /\ \A j \in 1..Len(lots) : j # i => lots[i].id < lots[j].id]_vars

\* Two buys on different dates, one sell: the gain comes from the older lot and
\* the younger lot is left whole.
FifoWitness ==
    /\ Returned
    /\ Len(created) = 2
    /\ created[1].date < created[2].date
    /\ Len(capital_gains) = 1
    /\ capital_gains[1].purchase_date = created[1].date
    /\ lots = <<created[2]>>

IsStableSortOf(out, in) ==
    /\ Len(out) = Len(in)
    /\ \A i, j \in 1..Len(out) : i < j => out[i].date <= out[j].date
    /\ \A d \in {in[i].date : i \in 1..Len(in)} :
          LET OnDate(t) == t.date = d
          IN  SelectSeq(out, OnDate) = SelectSeq(in, OnDate)

\* C2 (transaction ordering): during and after a calculate_taxes call the
\* transactions handed to process_transaction so far are a prefix of the input
\* batch sorted by date ascending with equal dates in input order, and at the
\* return they are that whole sorted batch.
ProcessedInStableDateOrder ==
    (call = "calculate_taxes" \/ Returned) =>
        /\ \E out \in {sorted_transactions} :
              /\ IsStableSortOf(out, transactions)
              /\ Len(processed) <= Len(out)
              /\ processed = SubSeq(out, 1, Len(processed))
        /\ Returned => Len(processed) = Len(transactions)

\* A returned run whose input was out of date order and held two different
\* transactions of one date.
OrderingWitness ==
    /\ Returned
    /\ \E i, j \in 1..Len(transactions) :
          i < j /\ transactions[i].date > transactions[j].date
    /\ \E i, j \in 1..Len(transactions) :
          i < j /\ transactions[i].date = transactions[j].date
                /\ transactions[i] # transactions[j]

\* C3 (idempotence, no cross-run accumulation): every calculate_taxes call
\* starts its loop with an empty ledger, gain list and anomaly log, whatever
\* the instance did before, and a call whose batch is the batch of the previous
\* calculate_taxes call returns the summary that call returned.
FreshRunAndIdempotence ==
    [][/\ (pc = "idle" /\ pc' = "for") =>
              lots' = <<>> /\ capital_gains' = <<>> /\ errors' = <<>>
       /\ (pc = "for" /\ pc' = "idle" /\ returned # <<>> /\ returned[1] = transactions) =>
              summary' = returned[2]]_vars

\* The second of two calls with one batch, just after its reset; the first call
\* had left a gain and an open lot on the instance.
SecondRunWitness ==
    /\ pc = "for"
    /\ idx = 1
    /\ returned # <<>>
    /\ returned[1] = transactions
    /\ Len(transactions) = 2
    /\ HasKey(returned[2], "capital_gains")
    /\ returned[2].remaining_lots # <<>>
    /\ lots = <<>> /\ capital_gains = <<>> /\ errors = <<>>

Symbols == {"BTC", "ETH"}

RECURSIVE SumAmount(_)
SumAmount(q) == IF q = <<>> THEN 0 ELSE Head(q).amount + SumAmount(Tail(q))

RECURSIVE SumOriginalAmount(_)
SumOriginalAmount(q) ==
    IF q = <<>> THEN 0 ELSE Head(q).original_amount + SumOriginalAmount(Tail(q))

OfSymbol(q, s) == SelectSeq(q, LAMBDA x : x.symbol = s)

\* C4 as claimed (conservation): after a batch, for every symbol, the original
\* amounts of the lots created equal the amounts matched plus the amounts left
\* in the surviving lots plus the amounts left in the lots evicted by a symbol
\* mismatch.
ConservationExact ==
    Returned =>
        \A s \in Symbols :
            SumOriginalAmount(OfSymbol(created, s)) =
                SumAmount(OfSymbol(capital_gains, s)) + SumAmount(OfSymbol(lots, s))
                + SumAmount(OfSymbol(evicted, s))

\* C4 as amended: the balance closes once the rest of every lot removed as
\* fully used is counted, and each such rest is below the tolerance.
ConservationUpToResidue ==
    /\ \A s \in Symbols :
          SumOriginalAmount(OfSymbol(created, s)) =
              SumAmount(OfSymbol(capital_gains, s)) + SumAmount(OfSymbol(lots, s))
              + SumAmount(OfSymbol(evicted, s)) + SumAmount(OfSymbol(consumed, s))
    /\ \A i \in 1..Len(consumed) : 0 <= consumed[i].amount /\ consumed[i].amount < Epsilon

\* A returned batch with a gain, a surviving lot, an evicted lot and a lot
\* removed with a rest above zero.
ConservationWitness ==
    /\ Returned
    /\ capital_gains # <<>>
    /\ lots # <<>>
    /\ evicted # <<>>
    /\ \E i \in 1..Len(consumed) : consumed[i].amount > 0

\* C5 (split across lots): every gain is taken from the front lot and matches
\* min(amount still to sell, the lot's remaining amount); the amount still to
\* sell drops by that much; a lot used up (to within the tolerance) leaves the
\* ledger and the sell goes on to the next lot, while a lot not used up stays
\* at the front with the rest and ends the sell; the other lots are untouched.
SplitAcrossLots ==
    [][GainAdded =>
        /\ pc = "while"
        /\ lots # <<>>
        /\ NewGain.purchase_date = lots[1].date
        /\ NewGain.amount = Min(remaining_to_sell, lots[1].amount)
        /\ remaining_to_sell' = remaining_to_sell - NewGain.amount
        /\ IF lots[1].amount - NewGain.amount < Epsilon
              THEN lots' = Tail(lots)
              ELSE /\ lots' = [lots EXCEPT ![1].amount = @ - NewGain.amount]
                   /\ remaining_to_sell' = 0]_vars

\* Lots of 3 and 6 and a sell of 6: gains of 3 and 3, and the second lot is
\* left with 3.
SplitWitness ==
    /\ Returned
    /\ Len(created) = 2
    /\ created[1].amount = 3 /\ created[2].amount = 6
    /\ Len(capital_gains) = 2
    /\ capital_gains[1].amount = 3 /\ capital_gains[2].amount = 3
    /\ lots = <<[created[2] EXCEPT !.amount = 3]>>

\* C6 (gain arithmetic): every gain has cost_basis = amount * the consumed
\* lot's unit price, proceeds = amount * the sell's unit price, and gain_loss =
\* proceeds - cost_basis; no fee enters.
GainArithmetic ==
    [][GainAdded =>
        /\ lots # <<>>
        /\ NewGain.cost_basis = NewGain.amount * lots[1].price_per_unit
        /\ NewGain.proceeds = NewGain.amount * transaction.price_per_unit
        /\ NewGain.gain_loss = NewGain.proceeds - NewGain.cost_basis]_vars

\* A sell below the purchase price, both carrying a fee: the gain is negative.
LossWitness ==
    /\ Returned
    /\ Len(capital_gains) = 1
    /\ capital_gains[1].gain_loss < 0
    /\ Len(processed) = 2
    /\ processed[1].fee_usd > 0 /\ processed[2].fee_usd > 0

\* C7 (term classification): for every gain, holding_days is the number of
\* whole days from the purchase date to the sale date, and the term is long
\* exactly when holding_days exceeds 365.
TermClassification ==
    \A i \in 1..Len(capital_gains) :
        LET g == capital_gains[i]
        IN  /\ g.holding_days * TicksPerDay <= g.sale_date - g.purchase_date
            /\ g.sale_date - g.purchase_date < (g.holding_days + 1) * TicksPerDay
            /\ g.term \in {"short", "long"}
            /\ g.term = "long" <=> g.holding_days > 365

\* One gain held 365 whole days and short, one held 366 days and long.
TermBoundaryWitness ==
    /\ \E i \in 1..Len(capital_gains) :
          capital_gains[i].holding_days = 365 /\ capital_gains[i].term = "short"
    /\ \E i \in 1..Len(capital_gains) :
          capital_gains[i].holding_days = 366 /\ capital_gains[i].term = "long"

IsNoLotsMessage(m) == HasKey(m, "remaining_to_sell")

IsMismatchMessage(m) == HasKey(m, "lot_symbol")

\* C8 (lots exhausted): a sell with more than the tolerance left facing an
\* empty ledger appends one anomaly and stops, leaving ledger and gains as they
\* are and handing control to the next transaction; what was left to sell is
\* dropped, as every sell starts from its own amount and no gain matches more
\* than the running sell still has to sell.
LotsExhausted ==
    [][/\ (pc = "while" /\ remaining_to_sell > Epsilon /\ lots = <<>>) =>
              /\ Len(errors') = Len(errors) + 1
              /\ IsNoLotsMessage(errors'[Len(errors')])
              /\ SubSeq(errors', 1, Len(errors)) = errors
              /\ pc' = (IF call = "calculate_taxes" THEN "for" ELSE "idle")
              /\ UNCHANGED <<lots, capital_gains, idx, sorted_transactions>>
       /\ (pc = "dispatch" /\ pc' = "while") => remaining_to_sell' = transaction.amount
       /\ GainAdded => pc = "while" /\ NewGain.amount <= remaining_to_sell]_vars

\* A sell that found no lot, then a buy and a sell: the first sell took
\* nothing from the later buy, the second sell was matched in full.
ExhaustedWitness ==
    /\ Returned
    /\ Len(processed) = 3
    /\ processed[1].type = "sell" /\ processed[1].amount > Epsilon
    /\ processed[2].type = "buy"
    /\ processed[3].type = "sell"
    /\ Len(errors) = 1 /\ IsNoLotsMessage(errors[1])
    /\ Len(capital_gains) = 1
    /\ capital_gains[1].amount = processed[3].amount

\* C9 (symbol mismatch): a sell with more than the tolerance left whose front
\* lot has another symbol appends one mismatch anomaly, removes that lot, emits
\* no gain, keeps the amount still to sell and stays in the loop; a removed lot
\* never comes back, and there are as many mismatch anomalies as evicted lots.
SymbolMismatch ==
    [][/\ (pc = "while" /\ remaining_to_sell > Epsilon /\ lots # <<>>
             /\ lots[1].symbol # transaction.symbol) =>
              /\ errors' = Append(errors,
                     [format |-> "Error: Symbol mismatch - trying to sell {symbol} but oldest lot is {oldest_lot.symbol}",
                      symbol |-> transaction.symbol, lot_symbol |-> lots[1].symbol])
              /\ lots' = Tail(lots)
              /\ evicted' = Append(evicted, lots[1])
              /\ pc' = "while"
              /\ UNCHANGED <<capital_gains, remaining_to_sell>>
       /\ Len(SelectSeq(errors', IsMismatchMessage)) = Len(evicted')
       /\ \A i \in 1..Len(evicted'), j \in 1..Len(lots') : evicted'[i].id # lots'[j].id]_vars

\* A sell of BTC met an ETH lot in front of a BTC lot: the ETH lot is gone with
\* one anomaly and no gain, and the sell was matched against the BTC lot.
MismatchWitness ==
    /\ Returned
    /\ Len(processed) = 3
    /\ Len(evicted) = 1 /\ evicted[1].symbol = "ETH" /\ evicted[1].amount = evicted[1].original_amount
    /\ Len(errors) = 1 /\ IsMismatchMessage(errors[1])
    /\ Len(capital_gains) = 1
    /\ capital_gains[1].symbol = "BTC"
    /\ capital_gains[1].amount = processed[3].amount

\* C10 (unknown kind): a transaction whose type is neither buy nor sell appends
\* exactly the one anomaly "Unknown transaction type: {kind}", changes neither
\* ledger nor gains, and hands control to the next transaction.
UnknownKind ==
    [][(pc = "dispatch" /\ transaction.type \notin {"buy", "sell"}) =>
          /\ errors' = Append(errors,
                 [format |-> "Unknown transaction type: {transaction['type']}",
                  type |-> transaction.type])
          /\ pc' = (IF call = "calculate_taxes" THEN "for" ELSE "idle")
          /\ UNCHANGED <<lots, capital_gains, idx, sorted_transactions>>]_vars

\* An unknown transaction between a buy and a sell: one anomaly, and the sell
\* was matched against the buy.
UnknownWitness ==
    /\ Returned
    /\ Len(processed) = 3
    /\ processed[1].type = "buy"
    /\ processed[2].type = "transfer"
    /\ processed[3].type = "sell"
    /\ errors = <<[format |-> "Unknown transaction type: {transaction['type']}",
                   type |-> "transfer"]>>
    /\ Len(capital_gains) = 1

SummaryKeys ==
    {"total_gain_loss", "short_term_gain_loss", "long_term_gain_loss",
     "num_transactions", "num_short_term", "num_long_term",
     "capital_gains", "remaining_lots", "errors"}

\* C11 (oversell): the summary of a batch that is one sell above the tolerance
\* and no buy has exactly one entry in errors, an empty capital_gains list and
\* num_transactions 0.
OversellSummary ==
    (/\ Returned
     /\ Len(transactions) = 1
     /\ transactions[1].type = "sell"
     /\ transactions[1].amount > Epsilon) =>
        /\ Len(summary.errors) = 1
        /\ summary.num_transactions = 0
        /\ HasKey(summary, "capital_gains")
        /\ summary.capital_gains = <<>>

\* C12 (buy-only conservation): the summary of a batch of buys has
\* total_gain_loss 0, no errors, and remaining_lots whose amounts add up to the
\* amounts bought.
BuyOnlySummary ==
    (/\ Returned
     /\ transactions # <<>>
     /\ \A i \in 1..Len(transactions) : transactions[i].type = "buy") =>
        /\ summary.total_gain_loss = 0
        /\ summary.errors = <<>>
        /\ HasKey(summary, "remaining_lots")
        /\ SumAmount(summary.remaining_lots) = SumAmount(transactions)

\* C13 (summary completeness): every returned summary has the nine keys of the
\* output contract, with the anomaly log and the surviving lots in it; without
\* gains its sums and counts are zero.
SummaryComplete ==
    Returned =>
        /\ \A k \in SummaryKeys : HasKey(summary, k)
        /\ summary.errors = errors
        /\ summary.remaining_lots = lots
        /\ summary.capital_gains = capital_gains
        /\ capital_gains = <<>> =>
              /\ summary.total_gain_loss = 0
              /\ summary.short_term_gain_loss = 0
              /\ summary.long_term_gain_loss = 0
              /\ summary.num_transactions = 0
              /\ summary.num_short_term = 0
              /\ summary.num_long_term = 0

\* C14 (aggregation): in every returned summary the short and long sums are
\* the sums of gain_loss over the gains of that term, the total is their sum,
\* and num_transactions is the number of gains and equals num_short_term +
\* num_long_term.
AggregationInEverySummary ==
    Returned =>
        /\ summary.short_term_gain_loss = SumGainLoss(SelectSeq(capital_gains, IsShort))
        /\ summary.long_term_gain_loss = SumGainLoss(SelectSeq(capital_gains, IsLong))
        /\ summary.total_gain_loss =
              summary.short_term_gain_loss + summary.long_term_gain_loss
        /\ summary.num_transactions = Len(capital_gains)
        /\ HasKey(summary, "num_short_term") /\ HasKey(summary, "num_long_term")
        /\ summary.num_short_term = Len(SelectSeq(capital_gains, IsShort))
        /\ summary.num_long_term = Len(SelectSeq(capital_gains, IsLong))
        /\ summary.num_transactions = summary.num_short_term + summary.num_long_term

\* The part of C14 the code meets: the same, for the summaries that hold gains.
AggregationWithGains ==
    (Returned /\ capital_gains # <<>>) => AggregationInEverySummary

\* An iteration of the sell loop that stays in the loop.
LoopIteration == pc = "while" /\ pc' = "while"

\* C15 (termination): every call of calculate_taxes returns, and every
\* iteration of the sell loop strictly decreases the amount still to sell or
\* strictly shrinks the ledger.
Termination ==
    /\ (call = "calculate_taxes") ~> Returned
    /\ [][LoopIteration =>
            \/ remaining_to_sell' < remaining_to_sell
            \/ Len(lots') < Len(lots)]_vars

\* A batch with a zero-amount buy, a zero-amount sell and a sell that goes
\* through the loop more than once has returned.
TerminationWitness ==
    /\ Returned
    /\ \E i \in 1..Len(transactions) :
          transactions[i].type = "buy" /\ transactions[i].amount = 0
    /\ \E i \in 1..Len(transactions) :
          transactions[i].type = "sell" /\ transactions[i].amount = 0
    /\ Len(capital_gains) >= 2

LotById(q, id) == CHOOSE x \in {q[i] : i \in 1..Len(q)} : x.id = id

IdsOf(q) == {q[i].id : i \in 1..Len(q)}

LotsBounded(q) ==
    \A i \in 1..Len(q) : 0 <= q[i].amount /\ q[i].amount <= q[i].original_amount

\* C16 (lot bounds): every lot in the ledger has 0 <= amount <= original_amount,
\* and the amount of a lot changes only in a matching step (one that emits a
\* gain from that lot), which lowers it.
LotBounds ==
    [][/\ LotsBounded(lots) /\ LotsBounded(lots')
       /\ \A id \in IdsOf(lots) \cap IdsOf(lots') :
                LotById(lots', id).amount # LotById(lots, id).amount =>
                    /\ pc = "while" /\ GainAdded
                    /\ id = OldestLot(lots).id
                    /\ NewGain.amount = LotById(lots, id).amount - LotById(lots', id).amount
                    /\ LotById(lots', id).amount < LotById(lots, id).amount]_vars

\* A lot that a match has lowered, strictly between zero and what was bought.
LotBoundsWitness ==
    /\ pc = "while"
    /\ lots # <<>>
    /\ capital_gains # <<>>
    /\ 0 < lots[1].amount /\ lots[1].amount < lots[1].original_amount

\* C17 (cost basis fixed at creation): every lot in the ledger, and every lot
\* in a returned remaining_lots, has the cost_basis, original_amount and
\* price_per_unit it was created with, cost_basis being original_amount *
\* price_per_unit, whatever has been sold from it.
CostBasisFixed ==
    /\ \A i \in 1..Len(lots) :
          /\ lots[i].cost_basis = lots[i].original_amount * lots[i].price_per_unit
          /\ lots[i].cost_basis = created[lots[i].id].cost_basis
          /\ lots[i].original_amount = created[lots[i].id].original_amount
          /\ lots[i].price_per_unit = created[lots[i].id].price_per_unit
    /\ (Returned /\ HasKey(summary, "remaining_lots")) =>
          \A i \in 1..Len(summary.remaining_lots) :
              LET lot == summary.remaining_lots[i]
              IN  /\ lot.cost_basis = lot.original_amount * lot.price_per_unit
                  /\ lot.cost_basis = created[lot.id].cost_basis
                  /\ lot.original_amount = created[lot.id].amount

\* A returned remaining_lots with a partly sold lot, whose cost_basis is not
\* that of the amount left.
CostBasisWitness ==
    /\ Returned
    /\ HasKey(summary, "remaining_lots")
    /\ \E i \in 1..Len(summary.remaining_lots) :
          LET lot == summary.remaining_lots[i]
          IN  /\ 0 < lot.amount /\ lot.amount < lot.original_amount
              /\ lot.cost_basis # lot.amount * lot.price_per_unit

\* C18 (buy): processing a buy appends exactly one lot at the tail, with
\* amount = original_amount = the buy's amount and the buy's date, symbol and
\* price_per_unit; it adds no gain and no error and leaves the lots already in
\* the ledger as they were, in the same order.
BuyFrame ==
    [][(pc = "dispatch" /\ transaction.type = "buy") =>
          /\ Len(lots') = Len(lots) + 1
          /\ SubSeq(lots', 1, Len(lots)) = lots
          /\ LET lot == lots'[Len(lots')]
             IN  /\ lot.amount = transaction.amount
                 /\ lot.original_amount = transaction.amount
                 /\ lot.date = transaction.date
                 /\ lot.symbol = transaction.symbol
                 /\ lot.price_per_unit = transaction.price_per_unit
          /\ capital_gains' = capital_gains
          /\ errors' = errors]_vars

\* A buy processed with a partly sold lot already in the ledger.
BuyWitness ==
    /\ Len(lots) = 2
    /\ lots[1].amount < lots[1].original_amount
    /\ lots[2].amount = lots[2].original_amount
    /\ processed # <<>>
    /\ processed[Len(processed)].type = "buy"
    /\ pc \in {"for", "idle"}

\* In the sell loop, the front lot has the sell's symbol and more than what is
\* still to sell.
PartialSale ==
    /\ pc = "while"
    /\ lots # <<>>
    /\ lots[1].symbol = transaction.symbol
    /\ remaining_to_sell < lots[1].amount

\* The step emits one gain of the amount still to sell, leaves the front lot in
\* front, lowered by that amount, the lots behind it as they were, and nothing
\* more to sell.
PartialSaleEffect ==
    /\ GainAdded
    /\ NewGain.amount = remaining_to_sell
    /\ lots' = [lots EXCEPT ![1].amount = lots[1].amount - remaining_to_sell]
    /\ remaining_to_sell' = 0
    /\ pc' = "while"

\* With nothing above the tolerance left to sell, the sell ends: no gain, no
\* error, the ledger as it is.
SellEnds ==
    (pc = "while" /\ remaining_to_sell <= Epsilon) =>
        /\ pc' # "while"
        /\ UNCHANGED <<lots, capital_gains, errors>>

\* Whatever a sell takes, it takes from the front lot.
TakenFromFront ==
    GainAdded =>
        \/ lots' = [lots EXCEPT ![1].amount = lots[1].amount - NewGain.amount]
        \/ lots' = Tail(lots)

\* C19 as stated (partial sale): a sell of s < r, s positive and r the amount of the front lot
\* of the same symbol, emits exactly one gain of amount s and leaves that lot in
\* front with r - s, so that the next sell of the symbol takes from it first.
PartialSaleExact ==
    [][/\ (PartialSale /\ remaining_to_sell > 0) => PartialSaleEffect
       /\ SellEnds
       /\ TakenFromFront]_vars

\* C19 (partial sale, within the tolerance): a sell of s < r with s above the
\* tolerance and r - s not below it emits exactly one gain of amount s and
\* leaves that lot in front with r - s; every later taking is from the front
\* lot, so the next sell of the symbol takes from that lot before any other.
PartialSaleAboveTolerance ==
    [][/\ (/\ PartialSale
           /\ remaining_to_sell > Epsilon
           /\ lots[1].amount - remaining_to_sell >= Epsilon) => PartialSaleEffect
       /\ SellEnds
       /\ TakenFromFront]_vars

\* Two sells have taken from the first lot, one after the other, and the lot
\* bought after it is whole.
PartialSaleWitness ==
    /\ Returned
    /\ Len(SelectSeq(transactions, LAMBDA t : t.type = "sell")) = 2
    /\ Len(created) = 2
    /\ Len(capital_gains) = 2
    /\ capital_gains[1].amount < created[1].amount
    /\ capital_gains[1].amount + capital_gains[2].amount = created[1].amount
    /\ lots = <<created[2]>>

\* The texts of C20, their placeholders written as the source names them.
ClaimedTexts ==
    {"Trying to sell {remaining_to_sell} {symbol} but no lots available on {sale_date.date()}",
     "Symbol mismatch - trying to sell {symbol} but oldest lot is {oldest_lot.symbol}",
     "Unknown transaction type: {transaction['type']}"}

Sells == {transactions[i] : i \in {j \in 1..Len(transactions) : transactions[j].type = "sell"}}

\* C20 as stated (anomaly texts): every entry of errors is one of the three
\* texts "Trying to sell ... but no lots available on ...", "Symbol mismatch -
\* trying to sell ... but oldest lot is ..." and "Unknown transaction type: ...".
AnomalyTextsExact ==
    \A i \in 1..Len(errors) : errors[i].format \in ClaimedTexts

\* C20 (anomaly texts, as the code writes them): every entry of errors is
\* "Error: Trying to sell {remaining} {symbol} but no lots available on {date}"
\* with what a sell of the batch had left above the tolerance, its symbol and
\* the calendar day of its date, or "Error: Symbol mismatch - trying to sell
\* {symbol} but oldest lot is {lot.symbol}" with a sell's symbol and a different
\* symbol of a bought lot, or "Unknown transaction type: {kind}" with the kind
\* of a transaction of the batch that is neither buy nor sell.
AnomalyTexts ==
    \A i \in 1..Len(errors) :
        LET e == errors[i]
        IN  \/ /\ e.format = "Error: Trying to sell {remaining_to_sell} {symbol} but no lots available on {sale_date.date()}"
               /\ DOMAIN e = {"format", "remaining_to_sell", "symbol", "date"}
               /\ \E t \in Sells :
                     /\ e.symbol = t.symbol
                     /\ e.date = t.date \div TicksPerDay
                     /\ Epsilon < e.remaining_to_sell
                     /\ e.remaining_to_sell <= t.amount
            \/ /\ e.format = "Error: Symbol mismatch - trying to sell {symbol} but oldest lot is {oldest_lot.symbol}"
               /\ DOMAIN e = {"format", "symbol", "lot_symbol"}
               /\ e.symbol # e.lot_symbol
               /\ \E t \in Sells : e.symbol = t.symbol
               /\ \E j \in 1..Len(created) : e.lot_symbol = created[j].symbol
            \/ /\ e.format = "Unknown transaction type: {transaction['type']}"
               /\ DOMAIN e = {"format", "type"}
               /\ e.type \notin {"buy", "sell"}
               /\ \E j \in 1..Len(transactions) : e.type = transactions[j].type

\* A returned log with a symbol-mismatch entry followed by a no-lots entry.
AnomalyTextsWitness ==
    /\ Returned
    /\ Len(errors) = 2
    /\ IsMismatchMessage(errors[1])
    /\ IsNoLotsMessage(errors[2])
    /\ errors[2].format \notin ClaimedTexts

\* The transaction being dispatched is handled as a buy: one lot more.
HandledAsBuy == Len(lots') = Len(lots) + 1 /\ errors' = errors /\ pc' # "while"

\* The transaction being dispatched is handled as a sell: the sell loop starts.
HandledAsSell == pc' = "while" /\ lots' = lots /\ errors' = errors

\* The transaction being dispatched is handled as an unrecognised kind.
HandledAsUnknown ==
    /\ lots' = lots /\ pc' # "while"
    /\ errors' = Append(errors, [format |-> "Unknown transaction type: {transaction['type']}",
                                 type |-> transaction.type])

\* C21 as stated (case-insensitive kind): a transaction whose type is "buy" or
\* "sell" in any letter case is processed by the calculator as a buy or a sell,
\* and only other strings are unrecognised.
KindCaseInsensitive ==
    [][pc = "dispatch" =>
          /\ Lower(transaction.type) = "buy" => HandledAsBuy
          /\ Lower(transaction.type) = "sell" => HandledAsSell
          /\ Lower(transaction.type) \notin {"buy", "sell"} => HandledAsUnknown]_vars

\* C21 (kind, as the code has it): the calculator processes a transaction as a
\* buy or a sell exactly when its type is the lower-case string "buy" or
\* "sell", any other string ("Buy", "SELL") being unrecognised; the parser
\* lower-cases the Type column, so every transaction parsed from a CSV row whose
\* Type is buy or sell in any letter case has type "buy" or "sell".
KindExactAfterLowering ==
    [][/\ pc = "dispatch" =>
             /\ transaction.type = "buy" => HandledAsBuy
             /\ transaction.type = "sell" => HandledAsSell
             /\ transaction.type \notin {"buy", "sell"} => HandledAsUnknown
       /\ rows' # <<>> =>
             /\ Len(transactions') = Len(rows')
             /\ \A i \in 1..Len(rows') :
                   /\ rows'[i].Type \in {"buy", "Buy", "BUY"} => transactions'[i].type = "buy"
                   /\ rows'[i].Type \in {"sell", "Sell", "SELL"} => transactions'[i].type = "sell"
                   /\ rows'[i].Type \in {"Credit"} =>
                         transactions'[i].type \notin {"buy", "sell"}]_vars

\* A batch parsed from rows of Type "Buy" and "SELL" has returned a gain and no
\* error.
KindWitness ==
    /\ Returned
    /\ \E i \in 1..Len(rows) : rows[i].Type = "Buy"
    /\ \E i \in 1..Len(rows) : rows[i].Type = "SELL"
    /\ capital_gains # <<>>
    /\ errors = <<>>

\* Request r has a calculation under way or finished.
Calculating(r) == requests[r].pc = "calculating"

Calculated(r) == requests[r].tax_summary # NoSummary

ServedAlone(r) ==
    /\ requests[r].pc = "done"
    /\ \A q \in RequestIds \ {r} : requests[q].pc = "new"

StoredBy(r) == \E i \in 1..Len(reports) : reports[i].request = r

\* C26 (empty upload): an upload of a .csv file that parses to zero
\* transactions is answered with status 400 and detail "No transactions found
\* in CSV", and no report is stored.
EmptyUploadIs400 ==
    \A r \in RequestIds :
        (/\ ServedAlone(r)
         /\ EndsWithCsv(requests[r].filename)
         /\ Parse(requests[r].content) = <<>>) =>
            /\ requests[r].response.status_code = 400
            /\ requests[r].response.detail = "No transactions found in CSV"
            /\ ~StoredBy(r)

\* C27 (uploads without gains): an upload of a .csv file that parses to at
\* least one transaction stores a report and is answered with the
\* UploadResponse (status 200), whether or not the calculation produced gains.
UploadWithoutGainsSucceeds ==
    \A r \in RequestIds :
        (/\ ServedAlone(r)
         /\ EndsWithCsv(requests[r].filename)
         /\ ~ParseRaises(requests[r].content)
         /\ Parse(requests[r].content) # <<>>) =>
            /\ requests[r].response.status_code = 200
            /\ StoredBy(r)

\* The part of C27 the code meets: the same, for the uploads whose summary
\* holds at least one gain.
UploadWithGainsSucceeds ==
    \A r \in RequestIds :
        (/\ ServedAlone(r)
         /\ EndsWithCsv(requests[r].filename)
         /\ HasKey(requests[r].tax_summary, "capital_gains")) =>
            /\ requests[r].response.status_code = 200
            /\ StoredBy(r)

\* No transaction is being processed.
BetweenTransactions == pc \in {"for", "idle"}

RemainingLotsReturned == Returned /\ HasKey(summary, "remaining_lots")

\* C23 as stated (consumed lots leave the ledger): after each transaction has
\* been processed every lot in the ledger, and every lot in a returned
\* remaining_lots, has an amount of at least the tolerance.
NoEmptyLotLeft ==
    /\ BetweenTransactions => \A i \in 1..Len(lots) : lots[i].amount >= Epsilon
    /\ RemainingLotsReturned =>
          \A i \in 1..Len(summary.remaining_lots) :
              summary.remaining_lots[i].amount >= Epsilon

\* C23 (consumed lots leave the ledger, bought amounts aside): every lot in
\* the ledger, and every lot in a returned remaining_lots, that a sell has
\* taken from has an amount of at least the tolerance; a lot with less is one
\* bought with that amount which no sell has reached.
NoConsumedLotLeft ==
    /\ \A i \in 1..Len(lots) :
          lots[i].amount >= Epsilon \/ lots[i].amount = lots[i].original_amount
    /\ RemainingLotsReturned =>
          \A i \in 1..Len(summary.remaining_lots) :
              LET lot == summary.remaining_lots[i]
              IN  lot.amount >= Epsilon \/ lot.amount = lot.original_amount

\* A returned remaining_lots with a lot that a sell has brought down to the
\* tolerance exactly, and a lot bought with amount zero.
ConsumedLotWitness ==
    /\ RemainingLotsReturned
    /\ \E i \in 1..Len(summary.remaining_lots) :
          LET lot == summary.remaining_lots[i]
          IN  lot.amount = Epsilon /\ lot.amount < lot.original_amount
    /\ \E i \in 1..Len(summary.remaining_lots) : summary.remaining_lots[i].amount = 0

\* The gains emitted so far for the sell being processed: those added since
\* the transactions before it were done.
GainsOfThisSell ==
    LET before == ProcessAllOn(NewCalculator, SubSeq(processed, 1, Len(processed) - 1))
    IN  SubSeq(capital_gains, Len(before.capital_gains) + 1, Len(capital_gains))

\* C24 (partial fill then exhaustion): when the sell loop finds the ledger
\* empty with more than the tolerance unsold, the gains of that sell stay, one
\* no-lots error is appended and the loop ends, and the amount in the error is
\* the sell's amount minus the amounts of its gains.
PartialFillThenExhaustion ==
    [][(/\ call = "calculate_taxes"
        /\ pc = "while"
        /\ remaining_to_sell > Epsilon
        /\ lots = <<>>) =>
           /\ capital_gains' = capital_gains
           /\ Len(errors') = Len(errors) + 1
           /\ SubSeq(errors', 1, Len(errors)) = errors
           /\ LET e == errors'[Len(errors')]
              IN  /\ e.format = "Error: Trying to sell {remaining_to_sell} {symbol} but no lots available on {sale_date.date()}"
                  /\ e.remaining_to_sell = transaction.amount - SumAmount(GainsOfThisSell)
                  /\ e.symbol = transaction.symbol
           /\ pc' # "while"]_vars

\* A returned run whose last sell was filled in part: a gain of that sell, then
\* a no-lots error naming less than the sell's amount.
PartialFillWitness ==
    /\ Returned
    /\ processed # <<>>
    /\ processed[Len(processed)].type = "sell"
    /\ GainsOfThisSell # <<>>
    /\ SumAmount(GainsOfThisSell) > 0
    /\ errors # <<>>
    /\ IsNoLotsMessage(errors[Len(errors)])
    /\ errors[Len(errors)].remaining_to_sell < processed[Len(processed)].amount

\* The lots of q are in non-decreasing order of purchase date.
OldestFirst(q) == \A i, j \in 1..Len(q) : i < j => q[i].date <= q[j].date

\* C25 (ledger order): throughout a calculate_taxes run the ledger is in
\* non-decreasing order of purchase date, and the returned summary lists the
\* surviving lots under remaining_lots in that order.
LedgerOrder ==
    /\ OldestFirst(lots)
    /\ Returned =>
          /\ HasKey(summary, "remaining_lots")
          /\ summary.remaining_lots = lots

\* The part of C25 the code meets: the ledger is ordered throughout, and a
\* summary that has remaining_lots lists the ledger in its order.
LedgerOrderWithGains ==
    /\ OldestFirst(lots)
    /\ RemainingLotsReturned =>
          /\ summary.remaining_lots = lots
          /\ OldestFirst(summary.remaining_lots)

\* C28 (only the front lot is partially consumed): in every state every lot
\* of the ledger behind the front one has the amount it was bought with.
OnlyFrontPartial ==
    \A i \in 2..Len(lots) : lots[i].amount = lots[i].original_amount

\* A returned ledger of two lots after a sale split across lots: the front lot
\* partly sold, the lot behind it whole.
OnlyFrontPartialWitness ==
    /\ Returned
    /\ Len(capital_gains) = 2
    /\ Len(lots) = 2
    /\ 0 < lots[1].amount /\ lots[1].amount < lots[1].original_amount
    /\ lots[2].amount = lots[2].original_amount

\* C29 (non-negative holding period): every gain of a calculate_taxes run has
\* purchase_date <= sale_date and holding_days >= 0, whatever the order of the
\* batch.
NonNegativeHolding ==
    \A i \in 1..Len(capital_gains) :
        /\ capital_gains[i].purchase_date <= capital_gains[i].sale_date
        /\ capital_gains[i].holding_days >= 0

\* A batch that lists a sell before the earlier buy it is matched with has
\* returned a gain.
NonNegativeHoldingWitness ==
    /\ Returned
    /\ Len(transactions) = 2
    /\ transactions[1].type = "sell"
    /\ transactions[2].type = "buy"
    /\ transactions[2].date < transactions[1].date
    /\ Len(capital_gains) = 1
    /\ capital_gains[1].purchase_date < capital_gains[1].sale_date

\* C30 as stated (no empty gain records): every gain has an amount of at least
\* the tolerance, batches with buys of amount zero included.
NoEmptyGain ==
    \A i \in 1..Len(capital_gains) : capital_gains[i].amount >= Epsilon

\* C30 (no empty gain records, bought amounts aside): no gain has a negative
\* amount, and a gain with an amount below the tolerance is the whole of a lot
\* bought with that amount; when every buy of the batch has at least the
\* tolerance, so has every gain.
NoEmptyGainButOfEmptyLot ==
    /\ \A i \in 1..Len(capital_gains) :
          LET g == capital_gains[i]
          IN  /\ g.amount >= 0
              /\ g.amount < Epsilon =>
                    \E j \in 1..Len(created) :
                        /\ created[j].amount = g.amount
                        /\ created[j].date = g.purchase_date
                        /\ created[j].symbol = g.symbol
    /\ (\A j \in 1..Len(created) : created[j].amount >= Epsilon) => NoEmptyGain

\* A returned run with a gain of amount zero, taken from a lot bought with
\* amount zero, and a gain of more than the tolerance.
EmptyGainWitness ==
    /\ Returned
    /\ \E i \in 1..Len(capital_gains) : capital_gains[i].amount = 0
    /\ \E i \in 1..Len(capital_gains) : capital_gains[i].amount > Epsilon

-----------------------------------------------------------------------------
(* C31 *)

\* A lot as it is in q is still in the ledger q2, with the same amount.
KeptAsIs(lot, q2) == \E j \in 1..Len(q2) : q2[j] = lot

\* C31: every gain carries the symbol of the sell that produced it and of the
\* lot it consumed, and a step of a sell never reduces a lot of another symbol:
\* such a lot stays as it is or is removed whole by the mismatch branch.
SymbolConsistency ==
    [][pc = "while" =>
          /\ GainAdded =>
                /\ NewGain.symbol = transaction.symbol
                /\ NewGain.symbol = OldestLot(lots).symbol
          /\ \A i \in 1..Len(lots) :
                lots[i].symbol # transaction.symbol =>
                    \/ KeptAsIs(lots[i], lots')
                    \/ /\ lots[i].id \notin IdsOf(lots')
                       /\ evicted' = Append(evicted, lots[i])]_vars

\* A sell of one symbol has evicted a lot of the other symbol, has taken a gain
\* from a lot of its own, and lots of the other symbol are still in the ledger.
SymbolConsistencyWitness ==
    /\ pc = "while"
    /\ evicted # <<>>
    /\ capital_gains # <<>>
    /\ capital_gains[Len(capital_gains)].symbol = transaction.symbol
    /\ \E i \in 1..Len(lots) : lots[i].symbol # transaction.symbol
    /\ \E i \in 1..Len(evicted) : evicted[i].symbol # transaction.symbol

-----------------------------------------------------------------------------
(* C32 *)

\* The amounts of the lots of a list, in its order.
AmountsOf(q) == [i \in 1..Len(q) |-> q[i].amount]

\* The dict s shows the gains, the errors and the lot amounts of the dict s0.
SameContents(s, s0) ==
    /\ s.errors = s0.errors
    /\ HasKey(s0, "capital_gains") =>
          /\ s.capital_gains = s0.capital_gains
          /\ AmountsOf(s.remaining_lots) = AmountsOf(s0.remaining_lots)

\* C32: the summary that calculate_taxes returned, as its caller sees it at any
\* later time, has the capital_gains, the errors and the amounts of the
\* remaining_lots it was returned with.
ReturnedSummaryStable ==
    returned # <<>> => SameContents(summary, returned[2])

\* A later calculate_taxes call on the instance leaves the returned dict alone
\* until it returns its own.
StableUnderCalculateTaxes ==
    [][(call' = "calculate_taxes" /\ pc' # "idle") => summary' = summary]_vars

-----------------------------------------------------------------------------
(* C33 *)

\* No two transactions of the batch have the same timestamp.
DistinctDates(batch) ==
    \A i, j \in 1..Len(batch) : i # j => batch[i].date # batch[j].date

\* The lists holding the transactions of the batch in every order.
Reorderings(batch) ==
    {[i \in 1..Len(batch) |-> batch[f[i]]] : f \in Permutations(1..Len(batch))}

\* C33: while calculate_taxes runs, the list it was given stays as it was
\* given; and the summary it returns for a batch of distinct dates is the
\* summary a new instance returns for every reordering of the batch.
InputOrderIndependence ==
    [][/\ pc # "idle" => transactions' = transactions
       /\ (Returned' /\ ~Returned /\ DistinctDates(transactions')) =>
             \A p \in Reorderings(transactions') : SummaryAlone(p) = summary']_vars

\* A batch of distinct dates given out of date order has been computed, and a
\* sale in it has met the purchase listed after it.
InputOrderWitness ==
    /\ Returned
    /\ DistinctDates(transactions)
    /\ Len(transactions) >= 3
    /\ transactions # sorted_transactions
    /\ transactions[1].type = "sell"
    /\ HasKey(summary, "capital_gains")
    /\ returned[1] = transactions

-----------------------------------------------------------------------------
(* C34 *)

\* process_transaction is executing a sell of no more than the tolerance.
InSubToleranceSell ==
    /\ pc \in {"dispatch", "while"}
    /\ IsSell(transaction)
    /\ transaction.amount <= Epsilon

\* C34: no step of a sell whose amount is not greater than the tolerance adds
\* a gain or an anomaly or changes the ledger, and the sell ends at the first
\* test of the loop, whatever the ledger holds.
SubToleranceSellNoOp ==
    [][InSubToleranceSell =>
          /\ capital_gains' = capital_gains
          /\ errors' = errors
          /\ lots' = lots
          /\ pc = "while" => pc' = AfterTransaction]_vars

\* A sell of exactly the tolerance has ended while the front lot has another
\* symbol, and one has ended on an empty ledger before it.
SubToleranceSellWitness ==
    /\ pc = "for"
    /\ Len(processed) = 3
    /\ processed[1] = Tx(0, "sell", "BTC", Epsilon, 2, 1)
    /\ processed[2].type = "buy"
    /\ processed[3] = Tx(0, "sell", "BTC", Epsilon, 2, 1)
    /\ lots # <<>>
    /\ Mismatch(OldestLot(lots), processed[3].symbol)
    /\ errors = <<>>
    /\ capital_gains = <<>>

-----------------------------------------------------------------------------
(* C35 *)

\* Request r has parsed its temporary file.
Parsed(r) == requests[r].pc \in {"calculating", "summarised", "stored"}

\* Served alone, request r is answered with the UploadResponse: its file is a
\* .csv file that parses and whose summary holds a gain.
SucceedsAlone(r) ==
    /\ EndsWithCsv(requests[r].filename)
    /\ ~ParseRaises(requests[r].content)
    /\ HasKey(SummaryAlone(Parse(requests[r].content)), "capital_gains")

\* Request r shares the path of its temporary file with no other request.
OwnPath(r) ==
    \A q \in RequestIds \ {r} :
        requests[q].pc # "new" => requests[q].filename # requests[r].filename

\* Request r parsed what it received and did not fail where it succeeds alone.
Undisturbed(r) ==
    /\ Parsed(r) => requests[r].transactions = Parse(requests[r].content)
    /\ (requests[r].pc = "done" /\ SucceedsAlone(r)) =>
          requests[r].response.status_code = 200

\* C35: in every interleaving of the upload requests, the same file name
\* included, each request parses exactly the content it received, and a request
\* that succeeds when served alone succeeds.
TempFileIsolation == \A r \in RequestIds : Undisturbed(r)

\* The same for the requests whose file name no other request carries.
TempFileIsolationOwnPath == \A r \in RequestIds : OwnPath(r) => Undisturbed(r)

\* The instance between two turns of the for loop holds what ProcessAllOn
\* computes for the transactions processed so far: the stepwise calculator and
\* the one used for the requests agree.
StepsAgreeWithProcessAllOn ==
    (call = "calculate_taxes" /\ pc = "for") =>
        [lots |-> lots, capital_gains |-> capital_gains, errors |-> errors,
         next_id |-> next_id] = ProcessAllOn(NewCalculator, processed)

====
